---- MODULE Spec2Model ----
(***************************************************************************)
(* gomegalint: the analyzer pass `run` walking the syntax trees of a       *)
(* package, recognising `Ω(X).Should(Y)`-like assertions and reporting     *)
(* the nilness and the style diagnostics with their suggested fixes.       *)
(*                                                                         *)
(* A syntax node is a record with a `kind` (the Go ast type), its children *)
(* under the ast field names, `pos` (its position: the file index followed *)
(* by the child indices leading to it) and, for expressions, `isErr`: what *)
(* pass.TypesInfo says about the expression's static type implementing     *)
(* the error interface.                                                    *)
(*                                                                         *)
(* State:                                                                  *)
(*   files        pass.Files, the syntax trees                             *)
(*   pass         1 for the run on the package as written, 2 for the run   *)
(*                on the package with the suggested fixes applied          *)
(*   fileIdx      the index of the file ast.Inspect is walking             *)
(*   stack        the nodes ast.Inspect has still to hand to the callback, *)
(*                Nil standing for the callback's call with nil            *)
(*   reports      the diagnostics passed to pass.Report, in order          *)
(*   visited      the positions of the nodes the callback was called on    *)
(*   matched      for each recognized assertion, in order, its position    *)
(*                and the callback's local emittedShouldFix                *)
(*   pc           "running", "done" (run returned) or "panicked"           *)
(*   panicMsg     the panic that aborted the pass                          *)
(*   firstFiles, firstReports   files and reports of the first run         *)
(***************************************************************************)
EXTENDS Naturals, Sequences, FiniteSets, TLC

VARIABLES files, pass, fileIdx, stack, reports, visited, matched, pc,
          panicMsg, firstFiles, firstReports

vars == <<files, pass, fileIdx, stack, reports, visited, matched, pc,
          panicMsg, firstFiles, firstReports>>

-----------------------------------------------------------------------------
(* Bounds of the explored inputs *)

\* a call of the explored trees has 0..MaxArgs arguments
MaxArgs == 2
\* pass.Files holds 1..MaxFiles files
MaxFiles == 2
\* assertions are nested inside assertions up to this depth
MaxNest == 1

-----------------------------------------------------------------------------
(* Names *)

Omega == "Ω"
Expect == "Expect"
Should == "Should"
ShouldNot == "ShouldNot"
To == "To"
ToNot == "ToNot"
NotTo == "NotTo"

ShouldStyle == "ShouldStyle"
ExpectStyle == "ExpectStyle"
Style == {ShouldStyle, ExpectStyle}

UnknownMatcher == ""
IsNil == "BeNil"
HaveOccurred == "HaveOccurred"
Succeed == "Succeed"
KnownMatcher == {UnknownMatcher, IsNil, HaveOccurred, Succeed}

\* the value of a nil pointer / nil interface
Nil == [kind |-> "nil"]
\* the outcome of getAssertion when it panics
Panic(msg) == [kind |-> "panic", msg |-> msg]
\* the outcomes of getStyle and renderInStyle when they panic
PanicFoo == "panic: foo"
PanicBar == "panic: bar"

-----------------------------------------------------------------------------
(* Syntax trees (go/ast) *)

Ident(name, err) == [kind |-> "Ident", Name |-> name, isErr |-> err, pos |-> <<>>]
BasicLit == [kind |-> "BasicLit", isErr |-> FALSE, pos |-> <<>>]
CallExpr(fun, args, err) ==
    [kind |-> "CallExpr", Fun |-> fun, Args |-> args, isErr |-> err, pos |-> <<>>]
SelectorExpr(x, sel) ==
    [kind |-> "SelectorExpr", X |-> x, Sel |-> Ident(sel, FALSE), isErr |-> FALSE, pos |-> <<>>]
File(list) == [kind |-> "File", List |-> list, pos |-> <<>>]

\* the children of a node in the order ast.Walk visits them
Children(n) ==
    CASE n.kind = "CallExpr" -> <<n.Fun>> \o n.Args
      [] n.kind = "SelectorExpr" -> <<n.X, n.Sel>>
      [] n.kind = "File" -> n.List
      [] OTHER -> <<>>

\* the tree with every node's position set; p is the position of n
RECURSIVE Position(_, _)
Position(n, p) ==
    CASE n.kind = "CallExpr" ->
           [n EXCEPT !.pos = p,
                     !.Fun = Position(n.Fun, Append(p, 1)),
                     !.Args = [i \in 1..Len(n.Args) |-> Position(n.Args[i], Append(p, i + 1))]]
      [] n.kind = "SelectorExpr" ->
           [n EXCEPT !.pos = p,
                     !.X = Position(n.X, Append(p, 1)),
                     !.Sel = Position(n.Sel, Append(p, 2))]
      [] n.kind = "File" ->
           [n EXCEPT !.pos = p,
                     !.List = [i \in 1..Len(n.List) |-> Position(n.List[i], Append(p, i))]]
      [] OTHER -> [n EXCEPT !.pos = p]

\* every node of the tree rooted at n
RECURSIVE Nodes(_)
Nodes(n) ==
    {n} \cup UNION {Nodes(Children(n)[i]) : i \in 1..Len(Children(n))}

AllNodes(fs) == UNION {Nodes(fs[i]) : i \in 1..Len(fs)}

-----------------------------------------------------------------------------
(* The classifiers and the renderer *)

getStyle(s) ==
    CASE s \in {Omega, Should, ShouldNot} -> ShouldStyle
      [] s \in {Expect, To, ToNot, NotTo} -> ExpectStyle
      [] OTHER -> PanicFoo

\* renderInStyle with the tokens of the two styles exchanged
renderInStyle_OtherStyle(style, negated) ==
    CASE style = ShouldStyle -> IF negated THEN NotTo ELSE To
      [] style = ExpectStyle -> IF negated THEN ShouldNot ELSE Should
      [] OTHER -> PanicBar

\* renderInStyle that ignores `negated`
renderInStyle_NeverNegated(style, negated) ==
    CASE style = ShouldStyle -> Should
      [] style = ExpectStyle -> To
      [] OTHER -> PanicBar

renderInStyle(style, negated) ==
    CASE style = ShouldStyle -> IF negated THEN ShouldNot ELSE Should
      [] style = ExpectStyle -> IF negated THEN NotTo ELSE To
      [] OTHER -> PanicBar

\* matchesNil that takes Succeed for a matcher of non-nil values
matchesNil_OnlyBeNil(m) == m = IsNil

matchesNil(m) == m # HaveOccurred

\* getAssertion without the `default: return nil` of the comparator switch
getAssertion_AnyComparator(n) ==
    IF n.kind # "CallExpr" \/ Len(n.Args) # 1 THEN Nil
    ELSE LET call == n
             shouldGetter == call.Fun
         IN IF shouldGetter.kind # "SelectorExpr" THEN Nil
            ELSE LET omegaCall == shouldGetter.X
                 IN IF omegaCall.kind # "CallExpr" \/ Len(call.Args) # 1 THEN Nil
                    ELSE LET omega == omegaCall.Fun
                         IN IF omega.kind # "Ident" THEN Nil
                            ELSE IF omega.Name \notin {Omega, Expect} THEN Nil
                            ELSE IF Len(omegaCall.Args) = 0
                                 THEN Panic("index out of range")
                            ELSE [kind |-> "assertion",
                                  CallExpr |-> call,
                                  Omega |-> omega,
                                  Subject |-> omegaCall.Args[1],
                                  Should |-> shouldGetter.Sel,
                                  Negated |-> shouldGetter.Sel.Name \in {ShouldNot, ToNot, NotTo},
                                  Matcher |-> call.Args[1]]

getAssertion(n) ==
    IF n.kind # "CallExpr" \/ Len(n.Args) # 1 THEN Nil
    ELSE LET call == n
             shouldGetter == call.Fun
         IN IF shouldGetter.kind # "SelectorExpr" THEN Nil
            ELSE LET omegaCall == shouldGetter.X
                 IN IF omegaCall.kind # "CallExpr" \/ Len(call.Args) # 1 THEN Nil
                    ELSE LET omega == omegaCall.Fun
                         IN IF omega.kind # "Ident" THEN Nil
                            ELSE IF omega.Name \notin {Omega, Expect} THEN Nil
                            ELSE IF shouldGetter.Sel.Name \notin
                                      {Should, To, ShouldNot, ToNot, NotTo} THEN Nil
                            ELSE IF Len(omegaCall.Args) = 0
                                 THEN Panic("index out of range")
                            ELSE [kind |-> "assertion",
                                  CallExpr |-> call,
                                  Omega |-> omega,
                                  Subject |-> omegaCall.Args[1],
                                  Should |-> shouldGetter.Sel,
                                  Negated |-> shouldGetter.Sel.Name \in {ShouldNot, ToNot, NotTo},
                                  Matcher |-> call.Args[1]]

\* the matcher's identifier (Nil when unknown) and its KnownMatcher
getKnownMatcher(ass) ==
    LET call == ass.Matcher
    IN IF call.kind # "CallExpr" \/ Len(call.Args) # 0
       THEN [ident |-> Nil, matcher |-> UnknownMatcher]
       ELSE LET matcherIdent == call.Fun
            IN IF matcherIdent.kind # "Ident"
               THEN [ident |-> Nil, matcher |-> UnknownMatcher]
               ELSE IF matcherIdent.Name \in {IsNil, HaveOccurred, Succeed}
                    THEN [ident |-> matcherIdent, matcher |-> matcherIdent.Name]
                    ELSE [ident |-> Nil, matcher |-> UnknownMatcher]

isErrorExpr(e) == e.isErr

-----------------------------------------------------------------------------
(* The two rule engines.  Each returns what it passed to pass.Report, in   *)
(* order, and the panic that ended it ("" when it returned).               *)

TextEdit(ident, newText) == [Pos |-> ident.pos, NewText |-> newText]

\* checkStyle that reports only when it may emit the fix
checkStyle_SilentWithoutFix(ass, emitFixes) ==
    LET omegaStyle == getStyle(ass.Omega.Name)
        shouldStyle == getStyle(ass.Should.Name)
        fixedShould == renderInStyle(omegaStyle, ass.Negated)
        d == [Pos |-> ass.CallExpr.pos,
              Message |-> <<"inconsistent assertion style", ass.Omega.Name, ass.Should.Name>>,
              SuggestedFixes |->
                  << [Message |-> <<"change", ass.Should.Name, fixedShould>>,
                      TextEdits |-> << TextEdit(ass.Should, fixedShould) >>] >>]
    IN IF PanicFoo \in {omegaStyle, shouldStyle}
       THEN [reported |-> << >>, panic |-> PanicFoo]
       ELSE IF omegaStyle = shouldStyle \/ ~emitFixes
       THEN [reported |-> << >>, panic |-> ""]
       ELSE IF fixedShould = PanicBar
       THEN [reported |-> << >>, panic |-> PanicBar]
       ELSE [reported |-> << d >>, panic |-> ""]

checkStyle(ass, emitFixes) ==
    LET omegaStyle == getStyle(ass.Omega.Name)
        shouldStyle == getStyle(ass.Should.Name)
        fixedShould == renderInStyle(omegaStyle, ass.Negated)
        d == [Pos |-> ass.CallExpr.pos,
              Message |-> <<"inconsistent assertion style", ass.Omega.Name, ass.Should.Name>>,
              SuggestedFixes |->
                  IF emitFixes
                  THEN << [Message |-> <<"change", ass.Should.Name, fixedShould>>,
                           TextEdits |-> << TextEdit(ass.Should, fixedShould) >>] >>
                  ELSE << >>]
    IN IF PanicFoo \in {omegaStyle, shouldStyle}
       THEN [reported |-> << >>, panic |-> PanicFoo]
       ELSE IF omegaStyle = shouldStyle
       THEN [reported |-> << >>, panic |-> ""]
       ELSE IF emitFixes /\ fixedShould = PanicBar
       THEN [reported |-> << >>, panic |-> PanicBar]
       ELSE [reported |-> << d >>, panic |-> ""]

\* expectedMatcher with the call and the non-call case exchanged
expectedMatcher_FormsExchanged(ass) ==
    IF isErrorExpr(ass.Subject)
    THEN IF ass.Subject.kind = "CallExpr" THEN HaveOccurred ELSE Succeed
    ELSE IsNil

\* the matcher checkNilnessAssertions expects for the assertion's subject
expectedMatcher(ass) ==
    IF isErrorExpr(ass.Subject)
    THEN IF ass.Subject.kind = "CallExpr" THEN Succeed ELSE HaveOccurred
    ELSE IsNil

\* checkNilnessAssertions that inverts the comparator in the comparator's own
\* style instead of the wrapper's
checkNilnessAssertions_ComparatorStyle(ass) ==
    LET known == getKnownMatcher(ass)
        matcherIdent == known.ident
        matcher == known.matcher
        expected == expectedMatcher(ass)
        needsInverting == matchesNil(matcher) # matchesNil(expected)
        shouldStyle == getStyle(ass.Should.Name)
        invertedShould == renderInStyle(shouldStyle, ass.Negated # needsInverting)
        d == [Pos |-> ass.CallExpr.pos,
              Message |-> <<"unidiomatic matcher", expected, matcher>>,
              SuggestedFixes |->
                  << [Message |-> IF needsInverting
                                  THEN <<"change matcher to", expected, "and invert the assertion">>
                                  ELSE <<"change matcher to", expected>>,
                      TextEdits |-> IF needsInverting
                                    THEN << TextEdit(matcherIdent, expected),
                                            TextEdit(ass.Should, invertedShould) >>
                                    ELSE << TextEdit(matcherIdent, expected) >>] >>]
    IN IF matcher = UnknownMatcher \/ matcher = expected
       THEN [reported |-> << >>, emittedShouldFix |-> FALSE, panic |-> ""]
       ELSE [reported |-> << d >>, emittedShouldFix |-> needsInverting, panic |-> ""]

checkNilnessAssertions(ass) ==
    LET known == getKnownMatcher(ass)
        matcherIdent == known.ident
        matcher == known.matcher
        expected == expectedMatcher(ass)
        needsInverting == matchesNil(matcher) # matchesNil(expected)
        omegaStyle == getStyle(ass.Omega.Name)
        invertedShould == renderInStyle(omegaStyle, ass.Negated # needsInverting)
        d == [Pos |-> ass.CallExpr.pos,
              Message |-> <<"unidiomatic matcher", expected, matcher>>,
              SuggestedFixes |->
                  << [Message |-> IF needsInverting
                                  THEN <<"change matcher to", expected, "and invert the assertion">>
                                  ELSE <<"change matcher to", expected>>,
                      TextEdits |-> IF needsInverting
                                    THEN << TextEdit(matcherIdent, expected),
                                            TextEdit(ass.Should, invertedShould) >>
                                    ELSE << TextEdit(matcherIdent, expected) >>] >>]
    IN IF matcher = UnknownMatcher
       THEN [reported |-> << >>, emittedShouldFix |-> FALSE, panic |-> ""]
       ELSE IF matcher = expected
       THEN [reported |-> << >>, emittedShouldFix |-> FALSE, panic |-> ""]
       ELSE IF needsInverting /\ omegaStyle = PanicFoo
       THEN [reported |-> << >>, emittedShouldFix |-> FALSE, panic |-> PanicFoo]
       ELSE IF needsInverting /\ invertedShould = PanicBar
       THEN [reported |-> << >>, emittedShouldFix |-> FALSE, panic |-> PanicBar]
       ELSE [reported |-> << d >>, emittedShouldFix |-> needsInverting, panic |-> ""]

\* the callback passing `true` for emitFixes whatever checkNilnessAssertions returned
checkAssertion_AlwaysFix(ass) ==
    LET nilness == checkNilnessAssertions(ass)
        style == checkStyle(ass, TRUE)
    IN [reported |-> nilness.reported \o style.reported,
        emittedShouldFix |-> nilness.emittedShouldFix,
        panic |-> style.panic]

\* the body of the callback run hands to ast.Inspect, for a recognized assertion
checkAssertion(ass) ==
    LET nilness == checkNilnessAssertions(ass)
        style == checkStyle(ass, ~nilness.emittedShouldFix)
    IN IF nilness.panic # ""
       THEN [reported |-> nilness.reported,
             emittedShouldFix |-> nilness.emittedShouldFix,
             panic |-> nilness.panic]
       ELSE [reported |-> nilness.reported \o style.reported,
             emittedShouldFix |-> nilness.emittedShouldFix,
             panic |-> style.panic]

-----------------------------------------------------------------------------
(* The explored inputs: the packages the pass is run on *)

\* n literal arguments
Extras(n) == [i \in 1..n |-> BasicLit]

\* `x` and `doStuff()`, of a type that implements error or not
Subjects ==
    {Ident("x", e) : e \in BOOLEAN}
        \cup {CallExpr(Ident("doStuff", FALSE), << >>, e) : e \in BOOLEAN}

\* `BeNil()`, `HaveOccurred()`, `Succeed()`, `MyMatcher()`, `BeNil(1)`,
\* `gomega.BeNil()` and `matcher`
Matchers ==
    {CallExpr(Ident(m, FALSE), << >>, FALSE) : m \in {IsNil, HaveOccurred, Succeed, "MyMatcher"}}
        \cup {CallExpr(Ident(IsNil, FALSE), Extras(1), FALSE),
              CallExpr(SelectorExpr(Ident("gomega", FALSE), IsNil), << >>, FALSE),
              Ident("matcher", FALSE)}

WrapperNames == {Omega, Expect, "Eventually"}
ComparatorNames == {Should, ShouldNot, To, ToNot, NotTo, "Equal"}

\* `w(wargs...).c(margs...)`
Statement(w, wargs, c, margs) ==
    CallExpr(SelectorExpr(CallExpr(Ident(w, FALSE), wargs, FALSE), c), margs, FALSE)

\* every wrapper, comparator and matcher, the wrapper taking 0..MaxArgs arguments
Statements ==
    {Statement(w, << >>, c, <<m>>) :
        w \in WrapperNames, c \in ComparatorNames, m \in Matchers}
    \cup
    {Statement(w, <<x>> \o Extras(k), c, <<m>>) :
        w \in WrapperNames, c \in ComparatorNames, m \in Matchers,
        x \in Subjects, k \in 0..(MaxArgs - 1)}

\* the other shapes: a comparator taking 0 or 2..MaxArgs arguments, `To(m)`,
\* `Expect.To(m)`, `gomega.Expect(x).To(m)`
OtherShapes ==
    LET x == Ident("x", TRUE)
        m == CallExpr(Ident(IsNil, FALSE), << >>, FALSE)
    IN {Statement(w, wargs, To, margs) :
            w \in {Expect}, wargs \in {<< >>, <<x>>},
            margs \in {<< >>} \cup {<<m>> \o Extras(k) : k \in 1..(MaxArgs - 1)}}
       \cup {CallExpr(Ident(To, FALSE), <<m>>, FALSE),
             CallExpr(SelectorExpr(Ident(Expect, FALSE), To), <<m>>, FALSE),
             CallExpr(SelectorExpr(
                 CallExpr(SelectorExpr(Ident("gomega", FALSE), Expect), <<x>>, FALSE),
                 To), <<m>>, FALSE)}

\* a few statements, with and without diagnostics
FewStatements ==
    LET x == Ident("x", TRUE)
        f == CallExpr(Ident("doStuff", FALSE), << >>, TRUE)
        M(m) == CallExpr(Ident(m, FALSE), << >>, FALSE)
    IN {Statement(Expect, <<x>>, Should, <<M(IsNil)>>),
        Statement(Omega, <<f>>, To, <<M(IsNil)>>),
        Statement(Expect, <<f>>, To, <<M(Succeed)>>),
        Statement(Omega, <<x>>, NotTo, <<M("MyMatcher")>>),
        Statement(Expect, << >>, To, <<M(IsNil)>>)}

\* statements with a statement of `inner` as the subject or inside the matcher
NestIn(inner) ==
    LET x == Ident("x", TRUE)
        M(m) == CallExpr(Ident(m, FALSE), << >>, FALSE)
    IN {Statement(w, <<i>>, Should, <<M(HaveOccurred)>>) : w \in {Omega, Expect}, i \in inner}
       \cup {Statement(Expect, <<x>>, c, <<CallExpr(Ident("Equal", FALSE), <<i>>, FALSE)>>) :
                c \in {To, ShouldNot}, i \in inner}
       \cup {Statement(Expect, <<x>>, Should, <<i>>) : i \in inner}

RECURSIVE Nested(_)
Nested(d) == IF d = 0 THEN FewStatements ELSE NestIn(Nested(d - 1))

RECURSIVE SeqsOf(_, _)
\* the sequences of n elements of S
SeqsOf(S, n) ==
    IF n = 0 THEN {<< >>}
    ELSE {Append(q, e) : q \in SeqsOf(S, n - 1), e \in S}

\* pass.Files: one file of one statement; or one file of a nested statement;
\* or 2..MaxFiles files of one or two statements
Packages ==
    {<<File(<<st>>)>> : st \in Statements \cup OtherShapes}
    \cup {<<File(<<st>>)>> : st \in UNION {Nested(d) : d \in 1..MaxNest}}
    \cup UNION {SeqsOf({File(<<st>>) : st \in FewStatements}, k) : k \in 2..MaxFiles}
    \cup {<<File(<<a, b>>)>> : a \in FewStatements, b \in FewStatements}

\* the files with the positions of their nodes
Positioned(fs) == [i \in 1..Len(fs) |-> Position(fs[i], <<i>>)]

\* the node at position p
RECURSIVE Descendant(_, _)
Descendant(n, path) ==
    IF path = << >> THEN n ELSE Descendant(Children(n)[Head(path)], Tail(path))

NodeAt(fs, p) == Descendant(fs[Head(p)], Tail(p))

-----------------------------------------------------------------------------
(* Applying suggested fixes (the driver's -fix flag) *)

\* every text edit of every suggested fix of the diagnostics, in order
RECURSIVE FixEdits(_)
FixEdits(ds) ==
    IF ds = << >> THEN << >>
    ELSE LET d == Head(ds)
             fixEdits == IF d.SuggestedFixes = << >> THEN << >>
                         ELSE d.SuggestedFixes[1].TextEdits
         IN fixEdits \o FixEdits(Tail(ds))

\* the tree with the edits applied: an edit replaces the identifier at its position
RECURSIVE Rewrite(_, _)
Rewrite(n, edits) ==
    CASE n.kind = "Ident" ->
           LET hits == {i \in 1..Len(edits) : edits[i].Pos = n.pos}
           IN IF hits = {} THEN n
              ELSE [n EXCEPT !.Name = edits[CHOOSE i \in hits : \A j \in hits : i <= j].NewText]
      [] n.kind = "CallExpr" ->
           [n EXCEPT !.Fun = Rewrite(n.Fun, edits),
                     !.Args = [i \in 1..Len(n.Args) |-> Rewrite(n.Args[i], edits)]]
      [] n.kind = "SelectorExpr" ->
           [n EXCEPT !.X = Rewrite(n.X, edits), !.Sel = Rewrite(n.Sel, edits)]
      [] n.kind = "File" ->
           [n EXCEPT !.List = [i \in 1..Len(n.List) |-> Rewrite(n.List[i], edits)]]
      [] OTHER -> n

-----------------------------------------------------------------------------
(* The pass *)

Init ==
    /\ files \in {Positioned(fs) : fs \in Packages}
    /\ pass = 1
    /\ fileIdx = 0
    /\ stack = << >>
    /\ reports = << >>
    /\ visited = << >>
    /\ matched = << >>
    /\ pc = "running"
    /\ panicMsg = ""
    /\ firstFiles = << >>
    /\ firstReports = << >>

\* `for _, file := range pass.Files`: ast.Inspect starts on the next file
NextFile ==
    /\ pc = "running"
    /\ stack = << >>
    /\ fileIdx < Len(files)
    /\ fileIdx' = fileIdx + 1
    /\ stack' = << files[fileIdx + 1] >>
    /\ UNCHANGED <<files, pass, reports, visited, matched, pc, panicMsg,
                   firstFiles, firstReports>>

\* what ast.Inspect does after the callback returned true for node n: walk the
\* children in order, then call the callback with nil
Descend(n) ==
    stack' = Children(n) \o <<Nil>> \o Tail(stack)

\* the callback on a node that is no assertion: `return true`
VisitNoMatch ==
    /\ pc = "running"
    /\ stack # << >>
    /\ LET n == Head(stack)
       IN /\ n # Nil
          /\ getAssertion(n) = Nil
          /\ visited' = Append(visited, n.pos)
          /\ Descend(n)
    /\ UNCHANGED <<files, pass, fileIdx, reports, matched, pc, panicMsg,
                   firstFiles, firstReports>>

\* the callback on a recognized assertion: both engines run, then `return true`
VisitAssertion ==
    /\ pc = "running"
    /\ stack # << >>
    /\ LET n == Head(stack)
           ass == getAssertion(n)
       IN /\ ass.kind = "assertion"
          /\ LET res == checkAssertion(ass)
             IN /\ reports' = reports \o res.reported
                /\ visited' = Append(visited, n.pos)
                /\ matched' = Append(matched, [pos |-> n.pos,
                                               emittedShouldFix |-> res.emittedShouldFix])
                /\ IF res.panic = ""
                   THEN Descend(n) /\ UNCHANGED <<pc, panicMsg>>
                   ELSE pc' = "panicked" /\ panicMsg' = res.panic /\ UNCHANGED stack
    /\ UNCHANGED <<files, pass, fileIdx, firstFiles, firstReports>>

\* the callback on a node getAssertion panics on: the pass is aborted
VisitPanic ==
    /\ pc = "running"
    /\ stack # << >>
    /\ LET n == Head(stack)
           ass == getAssertion(n)
       IN /\ ass.kind = "panic"
          /\ visited' = Append(visited, n.pos)
          /\ pc' = "panicked"
          /\ panicMsg' = ass.msg
    /\ UNCHANGED <<files, pass, fileIdx, stack, reports, matched, firstFiles, firstReports>>

\* the callback on nil, after a node's children: getAssertion(nil) is nil
VisitNil ==
    /\ pc = "running"
    /\ stack # << >>
    /\ Head(stack) = Nil
    /\ getAssertion(Head(stack)) = Nil
    /\ stack' = Tail(stack)
    /\ UNCHANGED <<files, pass, fileIdx, reports, visited, matched, pc, panicMsg,
                   firstFiles, firstReports>>

\* `return nil, nil`
Return ==
    /\ pc = "running"
    /\ stack = << >>
    /\ fileIdx = Len(files)
    /\ pc' = "done"
    /\ UNCHANGED <<files, pass, fileIdx, stack, reports, visited, matched, panicMsg,
                   firstFiles, firstReports>>

\* the suggested fixes of the first run are applied and the pass is run again
ApplyFixes ==
    /\ pc = "done"
    /\ pass = 1
    /\ reports # << >>
    /\ firstFiles' = files
    /\ firstReports' = reports
    /\ files' = [i \in 1..Len(files) |-> Rewrite(files[i], FixEdits(reports))]
    /\ pass' = 2
    /\ fileIdx' = 0
    /\ stack' = << >>
    /\ reports' = << >>
    /\ visited' = << >>
    /\ matched' = << >>
    /\ pc' = "running"
    /\ UNCHANGED panicMsg

Next ==
    \/ NextFile
    \/ VisitNoMatch
    \/ VisitAssertion
    \/ VisitPanic
    \/ VisitNil
    \/ Return
    \/ ApplyFixes

Spec == Init /\ [][Next]_vars

-----------------------------------------------------------------------------
(* The vocabulary of the properties, read off the syntax tree *)

\* the parts of the statement `Wrapper(Subject).Comparator(Matcher)` at node n
WrapperOf(n) == n.Fun.X.Fun.Name
ComparatorOf(n) == n.Fun.Sel
SubjectOf(n) == n.Fun.X.Args[1]
MatcherOf(n) == n.Args[1]

\* the two notations
Convention(name) ==
    CASE name \in {"Ω", "Should", "ShouldNot"} -> "Ω-notation"
      [] name \in {"Expect", "To", "ToNot", "NotTo"} -> "Expect-notation"
      [] OTHER -> "none"

\* whether a comparator negates its matcher
Negates(name) == name \in {"ShouldNot", "ToNot", "NotTo"}

\* the canonical comparator of a notation
Canonical(convention, negated) ==
    IF convention = "Ω-notation"
    THEN (IF negated THEN "ShouldNot" ELSE "Should")
    ELSE (IF negated THEN "NotTo" ELSE "To")

\* BeNil / HaveOccurred / Succeed when the matcher is a call of one of them
\* without arguments, "unknown" otherwise
MatcherClass(m) ==
    IF /\ m.kind = "CallExpr"
       /\ m.Args = << >>
       /\ m.Fun.kind = "Ident"
       /\ m.Fun.Name \in {"BeNil", "HaveOccurred", "Succeed"}
    THEN m.Fun.Name
    ELSE "unknown"

\* nil-polarity: the matcher matches when the subject is nil
MatchesWhenNil(m) == m \in {"BeNil", "Succeed"}

\* the matcher the nilness decision table asks for
Idiomatic(subject) ==
    CASE subject.isErr /\ subject.kind = "CallExpr" -> "Succeed"
      [] subject.isErr /\ subject.kind # "CallExpr" -> "HaveOccurred"
      [] OTHER -> "BeNil"

IsNilness(d) == d.Message[1] = "unidiomatic matcher"
IsStyle(d) == d.Message[1] = "inconsistent assertion style"

\* the indices in reports of the diagnostics of the assertion at position p
NilnessAt(p) == {i \in 1..Len(reports) : reports[i].Pos = p /\ IsNilness(reports[i])}
StyleAt(p) == {i \in 1..Len(reports) : reports[i].Pos = p /\ IsStyle(reports[i])}

\* every text edit carried by diagnostic d
EditsOf(d) == FixEdits(<<d>>)

\* the text edits of d that target the identifier at position p
EditsOn(d, p) == {i \in 1..Len(EditsOf(d)) : EditsOf(d)[i].Pos = p}

Matched == {matched[i] : i \in 1..Len(matched)}

-----------------------------------------------------------------------------
(* The properties *)

\* C1: for every recognized assertion whose matcher is BeNil, HaveOccurred or
\* Succeed, the expected matcher is Succeed for an error-capable call subject,
\* HaveOccurred for an error-capable non-call subject and BeNil otherwise; one
\* nilness diagnostic naming expected then actual is reported when they differ,
\* none when they are equal or when the matcher is unknown.
C1_NilnessDecision ==
    \A m \in Matched :
        LET n == NodeAt(files, m.pos)
            actual == MatcherClass(MatcherOf(n))
            expected == Idiomatic(SubjectOf(n))
        IN IF actual # "unknown" /\ actual # expected
           THEN /\ Cardinality(NilnessAt(m.pos)) = 1
                /\ \A i \in NilnessAt(m.pos) :
                       reports[i].Message = <<"unidiomatic matcher", expected, actual>>
           ELSE NilnessAt(m.pos) = {}

\* a run that reported HaveOccurred instead of BeNil for `Expect(x).Should(BeNil())`
\* and nothing for the idiomatic `Expect(doStuff()).To(Succeed())` after it
C1_Witness ==
    /\ pc = "done"
    /\ Len(matched) = 2
    /\ LET first == NodeAt(files, matched[1].pos)
           second == NodeAt(files, matched[2].pos)
       IN /\ \E i \in NilnessAt(first.pos) :
                 reports[i].Message = <<"unidiomatic matcher", "HaveOccurred", "BeNil">>
          /\ MatcherClass(MatcherOf(second)) = "Succeed"
          /\ Idiomatic(SubjectOf(second)) = "Succeed"
          /\ NilnessAt(second.pos) = {}

\* C2: the nilness fix carries an edit of the comparator exactly when actual
\* and expected differ in nil-polarity; the edit puts the comparator of the
\* wrapper's notation with the opposite negation; and checkNilnessAssertions
\* returns true exactly when that edit was emitted.
C2_ComparatorInverted ==
    \A m \in Matched :
        LET n == NodeAt(files, m.pos)
            should == ComparatorOf(n)
        IN /\ \A i \in NilnessAt(m.pos) :
                  LET d == reports[i]
                      flips == MatchesWhenNil(d.Message[2]) # MatchesWhenNil(d.Message[3])
                  IN /\ Cardinality(EditsOn(d, should.pos)) = (IF flips THEN 1 ELSE 0)
                     /\ \A e \in EditsOn(d, should.pos) :
                            /\ e = 2
                            /\ EditsOf(d)[e].NewText =
                                   Canonical(Convention(WrapperOf(n)), ~Negates(should.Name))
           /\ m.emittedShouldFix =
                  (\E i \in NilnessAt(m.pos) : EditsOn(reports[i], should.pos) # {})

\* `Expect(err).Should(BeNil())` got the fix to `Expect(err).NotTo(HaveOccurred())`
C2_Witness ==
    \E m \in Matched :
        LET n == NodeAt(files, m.pos)
        IN /\ m.emittedShouldFix
           /\ WrapperOf(n) = "Expect" /\ ComparatorOf(n).Name = "Should"
           /\ \E i \in NilnessAt(m.pos) :
                  /\ reports[i].Message = <<"unidiomatic matcher", "HaveOccurred", "BeNil">>
                  /\ EditsOf(reports[i])[2].NewText = "NotTo"

\* C3: checkStyle reports a diagnostic exactly when the notations of wrapper
\* and comparator differ, whatever the flag; the diagnostic carries a fix
\* exactly when the flag is true, and the fix is one edit putting the canonical
\* comparator of the wrapper's notation with the negation kept.
C3_StyleDecision ==
    \A m \in Matched :
        LET n == NodeAt(files, m.pos)
            should == ComparatorOf(n)
            emitFixes == ~m.emittedShouldFix
            mixed == Convention(WrapperOf(n)) # Convention(should.Name)
        IN /\ Cardinality(StyleAt(m.pos)) = (IF mixed THEN 1 ELSE 0)
           /\ \A i \in StyleAt(m.pos) :
                  LET d == reports[i]
                  IN /\ d.Message = <<"inconsistent assertion style", WrapperOf(n), should.Name>>
                     /\ (d.SuggestedFixes # << >>) = emitFixes
                     /\ emitFixes =>
                            /\ Len(d.SuggestedFixes) = 1
                            /\ d.SuggestedFixes[1].TextEdits =
                                   << [Pos |-> should.pos,
                                       NewText |-> Canonical(Convention(WrapperOf(n)),
                                                             Negates(should.Name))] >>

\* a style diagnostic with its fix and one without were reported in one run
C3_Witness ==
    /\ \E i \in 1..Len(reports) : IsStyle(reports[i]) /\ reports[i].SuggestedFixes # << >>
    /\ \E i \in 1..Len(reports) : IsStyle(reports[i]) /\ reports[i].SuggestedFixes = << >>

\* C4: for every recognized assertion the nilness diagnostic precedes the style
\* diagnostic, at most one text edit of all its diagnostics targets the
\* comparator, and a style diagnostic carries its fix exactly when the nilness
\* fix did not rewrite the comparator.
C4_OneComparatorEdit ==
    \A m \in Matched :
        LET n == NodeAt(files, m.pos)
            should == ComparatorOf(n)
            here == NilnessAt(m.pos) \cup StyleAt(m.pos)
            rewrote == \E i \in NilnessAt(m.pos) : EditsOn(reports[i], should.pos) # {}
            mixed == Convention(WrapperOf(n)) # Convention(should.Name)
        IN /\ \A i \in NilnessAt(m.pos), j \in StyleAt(m.pos) : i < j
           /\ Cardinality({<<i, e>> \in here \X (1..2) :
                              e \in EditsOn(reports[i], should.pos)}) <= 1
           /\ mixed => \E j \in StyleAt(m.pos) :
                           (reports[j].SuggestedFixes = << >>) = rewrote

\* a mixed assertion whose nilness fix rewrote the comparator: two diagnostics,
\* the second without a fix
C4_Witness ==
    \E m \in Matched :
        /\ m.emittedShouldFix
        /\ \E i \in NilnessAt(m.pos), j \in StyleAt(m.pos) :
               i < j /\ reports[j].SuggestedFixes = << >>

\* the shape conditions of an assertion
WellShaped(n) ==
    /\ n.kind = "CallExpr"
    /\ Len(n.Args) = 1
    /\ n.Fun.kind = "SelectorExpr"
    /\ n.Fun.X.kind = "CallExpr"
    /\ Len(n.Fun.X.Args) = 1
    /\ n.Fun.X.Fun.kind = "Ident"
    /\ n.Fun.X.Fun.Name \in {"Ω", "Expect"}
    /\ n.Fun.Sel.Name \in {"Should", "ShouldNot", "To", "ToNot", "NotTo"}

\* C5: getAssertion returns no match for every node that violates a shape
\* condition: no such node is recognized as an assertion and none makes
\* getAssertion fail abruptly.
C5_NoMatchUnlessWellShaped ==
    /\ \A m \in Matched : WellShaped(NodeAt(files, m.pos))
    /\ panicMsg # "index out of range"

\* C6: where checkStyle emitted a fix, the statement with the fix applied is
\* still recognized, negates as before, has wrapper and comparator of one
\* notation, and gets no style diagnostic when the pass is run again.
C6_StyleRoundTrip ==
    pass = 2 =>
        \A i \in 1..Len(firstReports) :
            LET d == firstReports[i]
                before == NodeAt(firstFiles, d.Pos)
                after == NodeAt(files, d.Pos)
            IN (IsStyle(d) /\ d.SuggestedFixes # << >>) =>
                   /\ ComparatorOf(after).Name = EditsOf(d)[1].NewText
                   /\ Negates(ComparatorOf(after).Name) = Negates(ComparatorOf(before).Name)
                   /\ Convention(WrapperOf(after)) = Convention(ComparatorOf(after).Name)
                   /\ pc # "panicked"
                   /\ StyleAt(d.Pos) = {}
                   /\ pc = "done" => \E m \in Matched : m.pos = d.Pos

\* the second run ended on a package in which a style fix was applied
C6_Witness ==
    /\ pass = 2
    /\ pc = "done"
    /\ \E i \in 1..Len(firstReports) :
           /\ IsStyle(firstReports[i])
           /\ firstReports[i].SuggestedFixes # << >>
           /\ Negates(ComparatorOf(NodeAt(files, firstReports[i].Pos)).Name)

\* C7: with every suggested edit of a run applied, the next run recognizes the
\* same assertions and reports no diagnostic.
C7_AllFixable ==
    pass = 2 =>
        /\ pc # "panicked"
        /\ reports = << >>
        /\ pc = "done" =>
               \A i \in 1..Len(firstReports) : \E m \in Matched : m.pos = firstReports[i].Pos

\* the second run ended without a diagnostic where the first run had reported
\* a style diagnostic without a fix
C7_Witness ==
    /\ pass = 2
    /\ pc = "done"
    /\ reports = << >>
    /\ \E i \in 1..Len(firstReports) :
           IsStyle(firstReports[i]) /\ firstReports[i].SuggestedFixes = << >>

\* C8: getStyle and renderInStyle never panic: every assertion handed to the
\* engines has a wrapper and a comparator of the known names.
C8_ClassifiersTotal ==
    /\ panicMsg \notin {PanicFoo, PanicBar}
    /\ \A m \in Matched :
           LET n == NodeAt(files, m.pos)
           IN /\ WrapperOf(n) \in {"Ω", "Expect"}
              /\ ComparatorOf(n).Name \in {"Should", "ShouldNot", "To", "ToNot", "NotTo"}
              /\ Convention(WrapperOf(n)) # "none"
              /\ Convention(ComparatorOf(n).Name) # "none"

\* the run ended on `Expect(x).Equal(BeNil())`, visited and not recognized
C8_Witness ==
    /\ pc = "done"
    /\ matched = << >>
    /\ \E i \in 1..Len(visited) :
           LET n == NodeAt(files, visited[i])
           IN /\ n.kind = "CallExpr"
              /\ n.Fun.kind = "SelectorExpr"
              /\ n.Fun.Sel.Name = "Equal"
              /\ n.Fun.X.kind = "CallExpr"
              /\ n.Fun.X.Fun.kind = "Ident"
              /\ n.Fun.X.Fun.Name = "Expect"
              /\ Len(n.Fun.X.Args) = 1

\* whether the assertion at node n passes for a nil / non-nil subject
Passes(n, subjectIsNil) ==
    (MatchesWhenNil(MatcherClass(MatcherOf(n))) = subjectIsNil) # Negates(ComparatorOf(n).Name)

\* C9: the assertion with the edits of the nilness fix applied passes for
\* exactly the subjects the assertion passed for.
C9_MeaningPreserved ==
    \A i \in 1..Len(reports) :
        IsNilness(reports[i]) =>
            LET n == NodeAt(files, reports[i].Pos)
                fixed == Rewrite(n, EditsOf(reports[i]))
            IN /\ MatcherClass(MatcherOf(fixed)) = reports[i].Message[2]
               /\ \A subjectIsNil \in BOOLEAN : Passes(fixed, subjectIsNil) = Passes(n, subjectIsNil)

\* a nilness fix that inverted a negated comparator, and one that left the
\* comparator alone
C9_Witness ==
    \E i \in 1..Len(reports) :
        /\ IsNilness(reports[i])
        /\ Len(EditsOf(reports[i])) = 2
        /\ Negates(ComparatorOf(NodeAt(files, reports[i].Pos)).Name)
        /\ ~Negates(EditsOf(reports[i])[2].NewText)

IsPrefix(p, q) == Len(p) < Len(q) /\ SubSeq(q, 1, Len(p)) = p

\* the nodes are visited once each, and the diagnostics of an assertion come
\* before those of the assertions nested in it
VisitedOnceInOrder ==
    /\ \A n \in AllNodes(files) :
           Cardinality({i \in 1..Len(visited) : visited[i] = n.pos}) = 1
    /\ \A n \in AllNodes(files) :
           WellShaped(n) => \E m \in Matched : m.pos = n.pos
    /\ \A i, j \in 1..Len(reports) :
           IsPrefix(reports[i].Pos, reports[j].Pos) => i < j

\* C10: when run has ended, every node of every file was evaluated exactly
\* once, the nested assertions included, and the diagnostics of an outer
\* assertion precede those of the assertions nested in it.
C10_EveryNodeOnce ==
    pc \in {"done", "panicked"} => VisitedOnceInOrder

\* the same for the runs that return
C10_WhenRunReturns ==
    pc = "done" => VisitedOnceInOrder

====
